---- MODULE Spec2Model ----
(***************************************************************************)
(* ConfidentialStakePoint (contracts/ConfidentialStakePoint.sol): a        *)
(* confidential staking vault.  stake() locks ETH and mints encrypted      *)
(* units, requestUnstake() burns encrypted units and registers a pending   *)
(* withdrawal keyed by the burnt-amount handle, finalizeUnstake() checks   *)
(* the public decryption proof of that handle and releases the ETH.        *)
(* StakeApp (ui/src/components/StakeApp.tsx) is the page through which a   *)
(* user makes these calls.                                                 *)
(*                                                                         *)
(* Every external call of the contract is one atomic EVM transaction: a    *)
(* revert discards all writes of the call, so an action that ends in an    *)
(* error leaves the contract state as it was and only records the call.    *)
(*                                                                         *)
(* Encrypted values are kept as the plaintext the FHE engine holds behind  *)
(* them.  The contract code never reads these plaintexts; they are what a  *)
(* decryption of the handle returns.                                       *)
(*                                                                         *)
(* TLC integers are 32 bits wide, so the wei-per-unit scale (1e12) and the *)
(* width of euint64 (2^64 - 1) are scaled down; every property below is    *)
(* stated in terms of STAKE_SCALE and Uint64Max, not of their values.      *)
(***************************************************************************)
EXTENDS Integers, FiniteSets, Sequences, TLC

\* Stand-in for STAKE_SCALE = 1e12 wei per unit.
STAKE_SCALE == 2

\* Stand-in for type(uint64).max.
Uint64Max == 2

\* Externally owned accounts and contracts that call the vault.
Accounts == {"alice", "bob"}

\* address(0): the value of an unset mapping slot.
ZeroAddress == "0x0"

\* Handles of burnt amounts (opaque bytes32 identifiers issued by the engine);
\* NoHandle is euint64.wrap(0), the unset handle.
Handles == {1, 2}
NoHandle == 0

\* Plaintext of a handle the engine has not produced (yet).
NoValue == -1

\* msg.value of a stake call: zero, misaligned, aligned, and too large.
StakeValues == 0 .. (Uint64Max + 1) * STAKE_SCALE

\* The ETH that can be locked in the vault.  All ETH in existence is far
\* below 2^64 units of 1e12 wei, so the locked units always fit in 64 bits.
MaxLockedWei == Uint64Max * STAKE_SCALE

\* Values of a 64-bit unsigned argument.
Uint64 == 0 .. Uint64Max

VARIABLES
    ethBalance,          \* address(this).balance, in wei
    balances,            \* decrypted ERC7984 balance of each account
    initialized,         \* accounts whose balance handle is initialised
    unstakeRequests,     \* _unstakeRequests: handle -> recipient
    clear,               \* engine: plaintext behind each burnt-amount handle
    publiclyDecryptable, \* engine ACL: handles marked publicly decryptable
    last,                \* the latest call: inputs, outcome, event, payout
    stack,               \* finalizeUnstake calls that are inside to.call
    paid,                \* wei sent for each handle since it was registered
    registrations,       \* successful requestUnstake calls per handle
    finalizations,       \* successful finalizeUnstake calls per handle
    client               \* StakeApp: the React state of the user's page

vars == <<ethBalance, balances, initialized, unstakeRequests, clear,
          publiclyDecryptable, last, stack, paid, registrations,
          finalizations, client>>

counts == <<registrations, finalizations>>

state == <<ethBalance, balances, initialized, unstakeRequests, clear,
           publiclyDecryptable>>

----------------------------------------------------------------------------
\* Records of calls, events and proofs

NoEvent == <<>>

NoProof == [h |-> NoHandle, c |-> 0, kms |-> FALSE]

\* The record of a call.  error = "" means the call returned normally and
\* errorArgs are the arguments the error carries (the supplied encrypted
\* amount stands for its handle there);
\* retClear is the plaintext behind the encrypted amount that stake returns;
\* balanceBefore is the decryption of the caller's balance before the call,
\* as the tests take it to compare with the balance afterwards.
Call(op, caller) ==
    [op |-> op, caller |-> caller,
     balanceBefore |-> IF caller \in Accounts THEN balances[caller] ELSE 0,
     value |-> 0, amount |-> NoValue,
     authOk |-> TRUE, handle |-> NoHandle, clearArg |-> 0, proof |-> NoProof,
     accepts |-> TRUE, error |-> "", errorArgs |-> <<>>, ret |-> NoHandle,
     retClear |-> NoValue, event |-> NoEvent, paidTo |-> ZeroAddress,
     paidWei |-> 0]

Succeeded(c) == c.error = ""

----------------------------------------------------------------------------
\* The FHE engine and the ERC7984 base token

RECURSIVE SumOver(_, _)
SumOver(f, S) ==
    IF S = {} THEN 0
    ELSE LET x == CHOOSE y \in S : TRUE IN f[x] + SumOver(f, S \ {x})

\* ERC7984 total supply: only mint and burn are in scope, so it is the sum
\* of the balances.
TotalSupply(bal) == SumOver(bal, Accounts)

\* ERC7984._mint: the minted amount is the requested one unless the total
\* supply would leave the 64-bit range, in which case nothing is minted.
MintedUnits(bal, units) ==
    IF TotalSupply(bal) + units <= Uint64Max THEN units ELSE 0

\* ERC7984._burn: the burnt amount is the requested one when the balance
\* covers it and an encrypted zero otherwise; the call does not revert on
\* the plaintext, which the contract cannot see.
BurntUnits(bal, from, amount) ==
    IF amount <= bal[from] THEN amount ELSE 0

\* A handle the engine has not produced before.  Handles are opaque, so the
\* unused handles are interchangeable and the next one in order stands for
\* any of them.
FreshHandles ==
    LET unused == {h \in Handles : clear[h] = NoValue}
    IN  {h \in unused : \A g \in unused : h <= g}

\* Handles the engine may return for a burnt amount of the given plaintext:
\* a fresh handle, or (handles are derived from the computation) a
\* previously issued handle, which then has the same plaintext.
ResultHandles(units) ==
    FreshHandles \cup {h \in Handles : clear[h] = units}

\* Proofs a caller can present: the decryption oracle signs (handle, clear)
\* only for publicly decryptable handles and their true plaintext; anything
\* else is not signed by the KMS.
GenuineProofs ==
    {[h |-> h, c |-> clear[h], kms |-> TRUE] : h \in publiclyDecryptable}

ForgedProofs(h, c) == {[h |-> h, c |-> c, kms |-> FALSE]}

\* FHE.checkSignatures(handles, cleartexts, proof) with a single handle: the
\* proof must be KMS signatures over exactly this handle and this cleartext.
checkSignatures(h, c, proof) ==
    proof.kms /\ proof.h = h /\ proof.c = c

----------------------------------------------------------------------------
\* StakeApp (ui/src/components/StakeApp.tsx): the state of the page

\* What the user has typed into an amount field: nothing, text that is not
\* a decimal number, or a decimal number of ETH, which is kept as the wei it
\* denotes.
EmptyText == [kind |-> "empty", wei |-> 0]
GarbageText == [kind |-> "garbage", wei |-> 0]
DecimalText(w) == [kind |-> "decimal", wei |-> w]

\* useState(null) of status, and a status that was set.
NoStatus == [tone |-> "", message |-> ""]
Status(tone, message) == [tone |-> tone, message |-> message]

\* An optional value (undefined, null) is the empty sequence; a present one
\* is the sequence of that value.
Undefined == <<>>
Some(v) == <<v>>

\* The useState values of StakeApp that the three handlers read and write,
\* with the handler that ran last and the transaction it sent, if any.
ClientInit ==
    [stakeAmount |-> EmptyText,
     unstakeAmount |-> EmptyText,
     status |-> NoStatus,
     isStaking |-> FALSE,
     isRequesting |-> FALSE,
     isFinalizing |-> FALSE,
     pendingUnstake |-> Undefined,
     handler |-> "",
     sent |-> "none"]

----------------------------------------------------------------------------
Init ==
    /\ ethBalance = 0
    /\ balances = [a \in Accounts |-> 0]
    /\ initialized = {}
    /\ unstakeRequests = [h \in Handles |-> ZeroAddress]
    /\ clear = [h \in Handles |-> NoValue]
    /\ publiclyDecryptable = {}
    /\ last = Call("constructor", ZeroAddress)
    /\ stack = <<>>
    /\ paid = [h \in Handles |-> 0]
    /\ registrations = [h \in Handles |-> 0]
    /\ finalizations = [h \in Handles |-> 0]
    /\ client = ClientInit

\* A call that reverted: every write of the call is discarded.
Reverted(call, err) ==
    /\ last' = [call EXCEPT !.error = err]
    /\ UNCHANGED state

\* stake() without the alignment test of msg.value.
stake_NoAlignmentCheck(sender, v) ==
    LET call == [Call("stake", sender) EXCEPT !.value = v]
        scaled == v \div STAKE_SCALE
    IN  IF v = 0 THEN
            Reverted(call, "InvalidStakeAmount")
        ELSE IF scaled > Uint64Max THEN
            Reverted(call, "InvalidStakeAmount")
        ELSE
            /\ ethBalance + v <= MaxLockedWei
            /\ ethBalance' = ethBalance + v
            /\ balances' = [balances EXCEPT
                              ![sender] = @ + MintedUnits(balances, scaled)]
            /\ initialized' = initialized \cup {sender}
            /\ last' = [call EXCEPT
                          !.retClear = MintedUnits(balances, scaled),
                          !.event = <<"Staked", sender, v, scaled>>]
            /\ UNCHANGED <<unstakeRequests, clear, publiclyDecryptable>>

\* stake() that returns early on a bad amount instead of reverting, so the
\* value sent with the call stays in the contract.
stake_ReturnsOnBadAmount(sender, v) ==
    LET call == [Call("stake", sender) EXCEPT !.value = v]
        scaled == v \div STAKE_SCALE
    IN  IF v = 0 \/ v % STAKE_SCALE # 0 \/ scaled > Uint64Max THEN
            /\ ethBalance + v <= MaxLockedWei + STAKE_SCALE
            /\ ethBalance' = ethBalance + v
            /\ last' = [call EXCEPT !.error = "InvalidStakeAmount"]
            /\ UNCHANGED <<balances, initialized, unstakeRequests, clear,
                           publiclyDecryptable>>
        ELSE
            /\ ethBalance + v <= MaxLockedWei
            /\ ethBalance' = ethBalance + v
            /\ balances' = [balances EXCEPT
                              ![sender] = @ + MintedUnits(balances, scaled)]
            /\ initialized' = initialized \cup {sender}
            /\ last' = [call EXCEPT
                          !.retClear = MintedUnits(balances, scaled),
                          !.event = <<"Staked", sender, v, scaled>>]
            /\ UNCHANGED <<unstakeRequests, clear, publiclyDecryptable>>

\* stake() that mints msg.value itself instead of msg.value / STAKE_SCALE.
stake_MintsWei(sender, v) ==
    LET call == [Call("stake", sender) EXCEPT !.value = v]
        scaled == v \div STAKE_SCALE
    IN  IF v = 0 \/ v % STAKE_SCALE # 0 THEN
            Reverted(call, "InvalidStakeAmount")
        ELSE IF scaled > Uint64Max THEN
            Reverted(call, "InvalidStakeAmount")
        ELSE
            /\ ethBalance + v <= MaxLockedWei
            /\ ethBalance' = ethBalance + v
            /\ balances' = [balances EXCEPT ![sender] = @ + v]
            /\ initialized' = initialized \cup {sender}
            /\ last' = [call EXCEPT
                          !.retClear = v,
                          !.event = <<"Staked", sender, v, scaled>>]
            /\ UNCHANGED <<unstakeRequests, clear, publiclyDecryptable>>

\* stake() whose Staked event carries the staker's resulting balance in
\* place of the minted units.
stake_EmitsBalance(sender, v) ==
    LET call == [Call("stake", sender) EXCEPT !.value = v]
        scaled == v \div STAKE_SCALE
    IN  IF v = 0 \/ v % STAKE_SCALE # 0 THEN
            Reverted(call, "InvalidStakeAmount")
        ELSE IF scaled > Uint64Max THEN
            Reverted(call, "InvalidStakeAmount")
        ELSE
            /\ ethBalance + v <= MaxLockedWei
            /\ ethBalance' = ethBalance + v
            /\ balances' = [balances EXCEPT
                              ![sender] = @ + MintedUnits(balances, scaled)]
            /\ initialized' = initialized \cup {sender}
            /\ last' = [call EXCEPT
                          !.retClear = MintedUnits(balances, scaled),
                          !.event = <<"Staked", sender, v,
                                      balances'[sender]>>]
            /\ UNCHANGED <<unstakeRequests, clear, publiclyDecryptable>>

\* stake() that also drops the sender's pending withdrawals.
stake_DropsRequests(sender, v) ==
    LET call == [Call("stake", sender) EXCEPT !.value = v]
        scaled == v \div STAKE_SCALE
    IN  IF v = 0 \/ v % STAKE_SCALE # 0 THEN
            Reverted(call, "InvalidStakeAmount")
        ELSE IF scaled > Uint64Max THEN
            Reverted(call, "InvalidStakeAmount")
        ELSE
            /\ ethBalance + v <= MaxLockedWei
            /\ ethBalance' = ethBalance + v
            /\ balances' = [balances EXCEPT
                              ![sender] = @ + MintedUnits(balances, scaled)]
            /\ initialized' = initialized \cup {sender}
            /\ unstakeRequests' =
                   [h \in Handles |-> IF unstakeRequests[h] = sender
                                      THEN ZeroAddress
                                      ELSE unstakeRequests[h]]
            /\ last' = [call EXCEPT
                          !.retClear = MintedUnits(balances, scaled),
                          !.event = <<"Staked", sender, v, scaled>>]
            /\ UNCHANGED <<clear, publiclyDecryptable>>

\* stake() payable, called by sender with msg.value = v.  It returns the
\* encrypted amount that _mint transferred.
stake(sender, v) ==
    LET call == [Call("stake", sender) EXCEPT !.value = v]
        scaled == v \div STAKE_SCALE
    IN  IF v = 0 \/ v % STAKE_SCALE # 0 THEN
            Reverted(call, "InvalidStakeAmount")
        ELSE IF scaled > Uint64Max THEN
            Reverted(call, "InvalidStakeAmount")
        ELSE
            /\ ethBalance + v <= MaxLockedWei
            /\ ethBalance' = ethBalance + v
            /\ balances' = [balances EXCEPT
                              ![sender] = @ + MintedUnits(balances, scaled)]
            /\ initialized' = initialized \cup {sender}
            /\ last' = [call EXCEPT
                          !.retClear = MintedUnits(balances, scaled),
                          !.event = <<"Staked", sender, v, scaled>>]
            /\ UNCHANGED <<unstakeRequests, clear, publiclyDecryptable>>

\* _requestUnstake that registers the withdrawal without burning the amount
\* from the sender's balance.
_requestUnstake_NoBurn(call, from, amount) ==
    IF from \notin initialized THEN
        Reverted(call, "ERC7984ZeroBalance")
    ELSE
        LET burnt == BurntUnits(balances, from, amount) IN
        \E burntAmount \in ResultHandles(burnt) :
            IF unstakeRequests[burntAmount] # ZeroAddress THEN
                Reverted([call EXCEPT !.handle = burntAmount,
                                       !.errorArgs = <<burntAmount>>],
                         "InvalidUnstakeRequest")
            ELSE
                /\ clear' = [clear EXCEPT ![burntAmount] = burnt]
                /\ publiclyDecryptable' =
                       publiclyDecryptable \cup {burntAmount}
                /\ unstakeRequests' =
                       [unstakeRequests EXCEPT ![burntAmount] = from]
                /\ last' = [call EXCEPT
                       !.handle = burntAmount,
                       !.ret = burntAmount,
                       !.event = <<"UnstakeRequested", from, burntAmount>>]
                /\ UNCHANGED <<ethBalance, initialized, balances>>

\* _requestUnstake without the duplicate-handle guard: a live entry is
\* overwritten by the new request.
_requestUnstake_NoGuard(call, from, amount) ==
    IF from \notin initialized THEN
        Reverted(call, "ERC7984ZeroBalance")
    ELSE
        LET burnt == BurntUnits(balances, from, amount) IN
        \E burntAmount \in ResultHandles(burnt) :
            /\ balances' = [balances EXCEPT ![from] = @ - burnt]
            /\ clear' = [clear EXCEPT ![burntAmount] = burnt]
            /\ publiclyDecryptable' = publiclyDecryptable \cup {burntAmount}
            /\ unstakeRequests' =
                   [unstakeRequests EXCEPT ![burntAmount] = from]
            /\ last' = [call EXCEPT
                   !.handle = burntAmount,
                   !.ret = burntAmount,
                   !.event = <<"UnstakeRequested", from, burntAmount>>]
            /\ UNCHANGED <<ethBalance, initialized>>

\* _requestUnstake with one statement of the code changed.  registered: the
\* plaintext behind the handle that is registered (the burnt amount in the
\* code); public: the handle is marked publicly decryptable; reverts: the
\* duplicate-handle guard reverts (otherwise it returns, keeping the burn).
_requestUnstakeVariant(call, from, amount, registered, public, reverts) ==
    IF from \notin initialized THEN
        Reverted(call, "ERC7984ZeroBalance")
    ELSE
        LET burnt == BurntUnits(balances, from, amount) IN
        \E burntAmount \in ResultHandles(registered) :
            IF unstakeRequests[burntAmount] # ZeroAddress /\ reverts THEN
                Reverted([call EXCEPT !.handle = burntAmount,
                                       !.errorArgs = <<burntAmount>>],
                         "InvalidUnstakeRequest")
            ELSE IF unstakeRequests[burntAmount] # ZeroAddress THEN
                /\ balances' = [balances EXCEPT ![from] = @ - burnt]
                /\ last' = [call EXCEPT !.handle = burntAmount,
                                        !.errorArgs = <<burntAmount>>,
                                        !.error = "InvalidUnstakeRequest"]
                /\ UNCHANGED <<ethBalance, initialized, unstakeRequests,
                               clear, publiclyDecryptable>>
            ELSE
                /\ balances' = [balances EXCEPT ![from] = @ - burnt]
                /\ clear' = [clear EXCEPT ![burntAmount] = registered]
                /\ publiclyDecryptable' =
                       IF public THEN publiclyDecryptable \cup {burntAmount}
                       ELSE publiclyDecryptable
                /\ unstakeRequests' =
                       [unstakeRequests EXCEPT ![burntAmount] = from]
                /\ last' = [call EXCEPT
                       !.handle = burntAmount,
                       !.ret = burntAmount,
                       !.event = <<"UnstakeRequested", from, burntAmount>>]
                /\ UNCHANGED <<ethBalance, initialized>>

\* _requestUnstake that registers the handle of the requested amount instead
\* of the handle _burn returns.
_requestUnstake_RegistersRequested(call, from, amount) ==
    _requestUnstakeVariant(call, from, amount, amount, TRUE, TRUE)

\* _requestUnstake that does not call FHE.makePubliclyDecryptable.
_requestUnstake_NotPublic(call, from, amount) ==
    _requestUnstakeVariant(call, from, amount,
                           BurntUnits(balances, from, amount), FALSE, TRUE)

\* _requestUnstake whose duplicate-handle guard returns instead of reverting,
\* so the burn made before it stays.
_requestUnstake_GuardReturns(call, from, amount) ==
    _requestUnstakeVariant(call, from, amount,
                           BurntUnits(balances, from, amount), TRUE, FALSE)

\* _requestUnstake(from, amount): burn, mark the burnt handle publicly
\* decryptable, refuse a handle that is already registered, register it.
\* amount is the plaintext behind the validated encrypted amount.
_requestUnstake(call, from, amount) ==
    IF from \notin initialized THEN
        Reverted(call, "ERC7984ZeroBalance")
    ELSE
        LET burnt == BurntUnits(balances, from, amount) IN
        \E burntAmount \in ResultHandles(burnt) :
            IF unstakeRequests[burntAmount] # ZeroAddress THEN
                Reverted([call EXCEPT !.handle = burntAmount,
                                       !.errorArgs = <<burntAmount>>],
                         "InvalidUnstakeRequest")
            ELSE
                /\ balances' = [balances EXCEPT ![from] = @ - burnt]
                /\ clear' = [clear EXCEPT ![burntAmount] = burnt]
                /\ publiclyDecryptable' =
                       publiclyDecryptable \cup {burntAmount}
                /\ unstakeRequests' =
                       [unstakeRequests EXCEPT ![burntAmount] = from]
                /\ last' = [call EXCEPT
                       !.handle = burntAmount,
                       !.ret = burntAmount,
                       !.event = <<"UnstakeRequested", from, burntAmount>>]
                /\ UNCHANGED <<ethBalance, initialized>>

\* requestUnstake (external-input form) that imports the amount without
\* verifying the input proof.
requestUnstakeExternal_NoProofCheck(sender, amount, proofOk) ==
    _requestUnstake([Call("requestUnstakeExternal", sender) EXCEPT
                        !.amount = amount, !.authOk = proofOk],
                    sender, amount)

\* requestUnstake (handle form) without the FHE.isAllowed requirement.
requestUnstakeHandle_NoAclCheck(sender, amount, isAllowed) ==
    _requestUnstake([Call("requestUnstakeHandle", sender) EXCEPT
                        !.amount = amount, !.authOk = isAllowed],
                    sender, amount)

\* requestUnstake(externalEuint64 encryptedAmount, bytes inputProof):
\* FHE.fromExternal reverts unless the input proof verifies for this
\* contract and this sender (proofOk).
requestUnstakeExternal(sender, amount, proofOk) ==
    LET call == [Call("requestUnstakeExternal", sender) EXCEPT
                    !.amount = amount, !.authOk = proofOk]
    IN  IF ~proofOk THEN Reverted(call, "InvalidInputProof")
        ELSE _requestUnstake(call, sender, amount)

\* requestUnstake(euint64 amount): the sender must be allowed on the handle
\* by the engine's ACL (FHE.isAllowed(amount, msg.sender)).
requestUnstakeHandle(sender, amount, isAllowed) ==
    LET call == [Call("requestUnstakeHandle", sender) EXCEPT
                    !.amount = amount, !.authOk = isAllowed]
    IN  IF ~isAllowed THEN
            Reverted([call EXCEPT !.errorArgs = <<amount, sender>>],
                     "ERC7984UnauthorizedUseOfEncryptedAmount")
        ELSE _requestUnstake(call, sender, amount)

\* finalizeUnstake with one statement of the code changed.  lookup: the
\* unknown-handle test is made; delete: the entry is deleted; verify: the
\* proof is checked; revert: a failed transfer reverts (otherwise the call
\* returns with the entry already deleted); scale: wei per paid unit.
finalizeUnstakeVariant(sender, burntAmount, burntAmountCleartext, decryptionProof, lookup, delete, verify, revert, scale) ==
    LET call == [Call("finalizeUnstake", sender) EXCEPT
                    !.handle = burntAmount,
                    !.clearArg = burntAmountCleartext,
                    !.proof = decryptionProof]
        to == unstakeRequests[burntAmount]
        weiAmount == burntAmountCleartext * scale
        cleaned == IF delete
                   THEN [unstakeRequests EXCEPT ![burntAmount] = ZeroAddress]
                   ELSE unstakeRequests
    IN  IF lookup /\ to = ZeroAddress THEN
            Reverted([call EXCEPT !.errorArgs = <<burntAmount>>],
                     "InvalidUnstakeRequest")
        ELSE IF verify /\ ~checkSignatures(burntAmount, burntAmountCleartext,
                                           decryptionProof) THEN
            Reverted(call, "InvalidKMSSignatures")
        ELSE
            \E accepts \in BOOLEAN :
                LET success == accepts /\ weiAmount <= ethBalance IN
                IF ~success /\ revert THEN
                    Reverted([call EXCEPT !.accepts = accepts],
                             "TransferFailed")
                ELSE IF ~success THEN
                    /\ unstakeRequests' = cleaned
                    /\ last' = [call EXCEPT !.accepts = accepts,
                                            !.error = "TransferFailed"]
                    /\ UNCHANGED <<ethBalance, balances, initialized, clear,
                                   publiclyDecryptable>>
                ELSE
                    /\ unstakeRequests' = cleaned
                    /\ ethBalance' = ethBalance - weiAmount
                    /\ last' = [call EXCEPT
                           !.accepts = accepts,
                           !.paidTo = to,
                           !.paidWei = weiAmount,
                           !.event = <<"UnstakeFinalized", to,
                                       burntAmountCleartext, weiAmount>>]
                    /\ UNCHANGED <<balances, initialized, clear,
                                   publiclyDecryptable>>

\* finalizeUnstake that does not delete the pending entry.
finalizeUnstake_NoDelete(sender, h, c, proof) ==
    finalizeUnstakeVariant(sender, h, c, proof, TRUE, FALSE, TRUE, TRUE,
                           STAKE_SCALE)

\* finalizeUnstake that does not call FHE.checkSignatures.
finalizeUnstake_NoProofCheck(sender, h, c, proof) ==
    finalizeUnstakeVariant(sender, h, c, proof, TRUE, TRUE, FALSE, TRUE,
                           STAKE_SCALE)

\* finalizeUnstake that returns instead of reverting when the transfer fails.
finalizeUnstake_ReturnsOnTransferFail(sender, h, c, proof) ==
    finalizeUnstakeVariant(sender, h, c, proof, TRUE, TRUE, TRUE, FALSE,
                           STAKE_SCALE)

\* finalizeUnstake that pays the unit count as wei, without STAKE_SCALE.
finalizeUnstake_PaysUnits(sender, h, c, proof) ==
    finalizeUnstakeVariant(sender, h, c, proof, TRUE, TRUE, TRUE, TRUE, 1)

\* finalizeUnstake without the test for an unknown handle.
finalizeUnstake_NoLookup(sender, h, c, proof) ==
    finalizeUnstakeVariant(sender, h, c, proof, FALSE, TRUE, TRUE, TRUE,
                           STAKE_SCALE)

\* finalizeUnstake that sends the ETH to msg.sender instead of the
\* registered recipient.
finalizeUnstake_PaysCaller(sender, burntAmount, burntAmountCleartext, decryptionProof) ==
    LET call == [Call("finalizeUnstake", sender) EXCEPT
                    !.handle = burntAmount,
                    !.clearArg = burntAmountCleartext,
                    !.proof = decryptionProof]
        to == unstakeRequests[burntAmount]
        weiAmount == burntAmountCleartext * STAKE_SCALE
    IN  IF to = ZeroAddress THEN
            Reverted([call EXCEPT !.errorArgs = <<burntAmount>>],
                     "InvalidUnstakeRequest")
        ELSE IF ~checkSignatures(burntAmount, burntAmountCleartext,
                                 decryptionProof) THEN
            Reverted(call, "InvalidKMSSignatures")
        ELSE
            \E accepts \in BOOLEAN :
                LET success == accepts /\ weiAmount <= ethBalance IN
                IF ~success THEN
                    Reverted([call EXCEPT !.accepts = accepts],
                             "TransferFailed")
                ELSE
                    /\ unstakeRequests' =
                           [unstakeRequests EXCEPT ![burntAmount] = ZeroAddress]
                    /\ ethBalance' = ethBalance - weiAmount
                    /\ last' = [call EXCEPT
                           !.accepts = accepts,
                           !.paidTo = sender,
                           !.paidWei = weiAmount,
                           !.event = <<"UnstakeFinalized", to,
                                       burntAmountCleartext, weiAmount>>]
                    /\ UNCHANGED <<balances, initialized, clear,
                                   publiclyDecryptable>>

\* finalizeUnstake that returns instead of reverting when the proof does not
\* verify, so the delete made before the check stays.
finalizeUnstake_ReturnsOnBadProof(sender, burntAmount, burntAmountCleartext, decryptionProof) ==
    LET call == [Call("finalizeUnstake", sender) EXCEPT
                    !.handle = burntAmount,
                    !.clearArg = burntAmountCleartext,
                    !.proof = decryptionProof]
    IN  IF /\ unstakeRequests[burntAmount] # ZeroAddress
           /\ ~checkSignatures(burntAmount, burntAmountCleartext,
                               decryptionProof)
        THEN
            /\ unstakeRequests' =
                   [unstakeRequests EXCEPT ![burntAmount] = ZeroAddress]
            /\ last' = [call EXCEPT !.error = "InvalidKMSSignatures"]
            /\ UNCHANGED <<ethBalance, balances, initialized, clear,
                           publiclyDecryptable>>
        ELSE
            finalizeUnstakeVariant(sender, burntAmount, burntAmountCleartext,
                                   decryptionProof, TRUE, TRUE, TRUE, TRUE,
                                   STAKE_SCALE)

\* finalizeUnstake(burntAmount, burntAmountCleartext, decryptionProof).
\* The recipient's code runs inside to.call; accepts is whether it returns
\* without reverting.  A call with more value than the contract holds fails.
finalizeUnstake(sender, burntAmount, burntAmountCleartext, decryptionProof) ==
    LET call == [Call("finalizeUnstake", sender) EXCEPT
                    !.handle = burntAmount,
                    !.clearArg = burntAmountCleartext,
                    !.proof = decryptionProof]
        to == unstakeRequests[burntAmount]
        weiAmount == burntAmountCleartext * STAKE_SCALE
    IN  IF to = ZeroAddress THEN
            Reverted([call EXCEPT !.errorArgs = <<burntAmount>>],
                     "InvalidUnstakeRequest")
        ELSE IF ~checkSignatures(burntAmount, burntAmountCleartext,
                                 decryptionProof) THEN
            Reverted(call, "InvalidKMSSignatures")
        ELSE
            \E accepts \in BOOLEAN :
                LET success == accepts /\ weiAmount <= ethBalance IN
                IF ~success THEN
                    Reverted([call EXCEPT !.accepts = accepts],
                             "TransferFailed")
                ELSE
                    /\ unstakeRequests' =
                           [unstakeRequests EXCEPT ![burntAmount] = ZeroAddress]
                    /\ ethBalance' = ethBalance - weiAmount
                    /\ last' = [call EXCEPT
                           !.accepts = accepts,
                           !.paidTo = to,
                           !.paidWei = weiAmount,
                           !.event = <<"UnstakeFinalized", to,
                                       burntAmountCleartext, weiAmount>>]
                    /\ UNCHANGED <<balances, initialized, clear,
                                   publiclyDecryptable>>

\* The wei sent for a handle: a registration starts the count anew and a
\* payout adds to it.
Registered(h) == [paid EXCEPT ![h] = 0]
Sent(h, weiAmount) == [paid EXCEPT ![h] = @ + weiAmount]

PaidAfterRequest ==
    paid' = IF Succeeded(last') THEN Registered(last'.ret) ELSE paid

PaidAfterFinalize ==
    paid' = IF Succeeded(last') THEN Sent(last'.handle, last'.paidWei)
            ELSE paid

\* Every call is a transaction of its own and the recipient of a payout
\* makes no call of its own.
Next ==
    \/ \E sender \in Accounts, v \in StakeValues :
           stake(sender, v) /\ UNCHANGED <<stack, paid, counts, client>>
    \/ \E sender \in Accounts, amount \in Uint64, proofOk \in BOOLEAN :
           /\ requestUnstakeExternal(sender, amount, proofOk)
           /\ PaidAfterRequest
           /\ UNCHANGED <<stack, counts, client>>
    \/ \E sender \in Accounts, amount \in Uint64, isAllowed \in BOOLEAN :
           /\ requestUnstakeHandle(sender, amount, isAllowed)
           /\ PaidAfterRequest
           /\ UNCHANGED <<stack, counts, client>>
    \/ \E sender \in Accounts, h \in Handles, c \in Uint64 :
       \E proof \in GenuineProofs \cup ForgedProofs(h, c) :
           /\ finalizeUnstake(sender, h, c, proof)
           /\ PaidAfterFinalize
           /\ UNCHANGED <<stack, counts, client>>

Spec == Init /\ [][Next]_vars

TypeOK ==
    /\ ethBalance \in 0 .. MaxLockedWei
    /\ balances \in [Accounts -> Uint64]
    /\ initialized \subseteq Accounts
    /\ unstakeRequests \in [Handles -> Accounts \cup {ZeroAddress}]
    /\ clear \in [Handles -> Uint64 \cup {NoValue}]
    /\ publiclyDecryptable = {h \in Handles : clear[h] # NoValue}
    /\ paid \in [Handles -> 0 .. MaxLockedWei]

----------------------------------------------------------------------------
\* Re-entrant calls.  to.call in finalizeUnstake hands control to the
\* recipient, which may call stake, requestUnstake and finalizeUnstake again
\* before it returns.  A finalizeUnstake call is therefore taken in two steps,
\* up to the transfer and after it, and the calls that are inside to.call are
\* kept in stack, innermost last, each with the arguments and locals that
\* finalizeUnstake still holds when to.call returns.  The record of a call
\* that returns takes the caller's balance as it is at the return.
\*
\* A recipient that reverts undoes the transfer and everything that was
\* called from inside it, so a call whose recipient reverts is resolved when
\* it is made: it reverts with TransferFailed and leaves no trace.

MaxDepth == 2

\* The two mappings of an in-flight call differ only in when the entry is
\* deleted: before the transfer, or not before it.
finalizeUnstakeEnter_TransfersBeforeDelete(sender, burntAmount, burntAmountCleartext, decryptionProof, accepts) ==
    LET call == [Call("finalizeUnstake", sender) EXCEPT
                    !.handle = burntAmount,
                    !.clearArg = burntAmountCleartext,
                    !.proof = decryptionProof,
                    !.accepts = accepts]
        to == unstakeRequests[burntAmount]
        weiAmount == burntAmountCleartext * STAKE_SCALE
        frame == [caller |-> sender, handle |-> burntAmount,
                  clearArg |-> burntAmountCleartext, proof |-> decryptionProof,
                  paidTo |-> to, paidWei |-> weiAmount]
    IN  IF to = ZeroAddress THEN
            /\ Reverted([call EXCEPT !.errorArgs = <<burntAmount>>],
                        "InvalidUnstakeRequest")
            /\ UNCHANGED <<stack, paid, counts, client>>
        ELSE IF ~checkSignatures(burntAmount, burntAmountCleartext,
                                 decryptionProof) THEN
            /\ Reverted(call, "InvalidKMSSignatures")
            /\ UNCHANGED <<stack, paid, counts, client>>
        ELSE IF ~accepts \/ weiAmount > ethBalance THEN
            /\ Reverted(call, "TransferFailed")
            /\ UNCHANGED <<stack, paid, counts, client>>
        ELSE
            /\ Len(stack) < MaxDepth
            /\ ethBalance' = ethBalance - weiAmount
            /\ stack' = Append(stack, frame)
            /\ paid' = Sent(burntAmount, weiAmount)
            /\ UNCHANGED <<counts, client>>
            /\ last' = [call EXCEPT !.op = "to.call", !.paidTo = to,
                                    !.paidWei = weiAmount]
            /\ UNCHANGED <<balances, initialized, unstakeRequests, clear,
                           publiclyDecryptable>>

\* finalizeUnstake up to and including the start of to.call: the lookup, the
\* delete, the proof check and the transfer of weiAmount to the recipient.
finalizeUnstakeEnter(sender, burntAmount, burntAmountCleartext, decryptionProof, accepts) ==
    LET call == [Call("finalizeUnstake", sender) EXCEPT
                    !.handle = burntAmount,
                    !.clearArg = burntAmountCleartext,
                    !.proof = decryptionProof,
                    !.accepts = accepts]
        to == unstakeRequests[burntAmount]
        weiAmount == burntAmountCleartext * STAKE_SCALE
        frame == [caller |-> sender, handle |-> burntAmount,
                  clearArg |-> burntAmountCleartext, proof |-> decryptionProof,
                  paidTo |-> to, paidWei |-> weiAmount]
    IN  IF to = ZeroAddress THEN
            /\ Reverted([call EXCEPT !.errorArgs = <<burntAmount>>],
                        "InvalidUnstakeRequest")
            /\ UNCHANGED <<stack, paid, counts, client>>
        ELSE IF ~checkSignatures(burntAmount, burntAmountCleartext,
                                 decryptionProof) THEN
            /\ Reverted(call, "InvalidKMSSignatures")
            /\ UNCHANGED <<stack, paid, counts, client>>
        ELSE IF ~accepts \/ weiAmount > ethBalance THEN
            /\ Reverted(call, "TransferFailed")
            /\ UNCHANGED <<stack, paid, counts, client>>
        ELSE
            /\ Len(stack) < MaxDepth
            /\ unstakeRequests' =
                   [unstakeRequests EXCEPT ![burntAmount] = ZeroAddress]
            /\ ethBalance' = ethBalance - weiAmount
            /\ stack' = Append(stack, frame)
            /\ paid' = Sent(burntAmount, weiAmount)
            /\ UNCHANGED <<counts, client>>
            /\ last' = [call EXCEPT !.op = "to.call", !.paidTo = to,
                                    !.paidWei = weiAmount]
            /\ UNCHANGED <<balances, initialized, clear,
                           publiclyDecryptable>>

\* The innermost to.call returns with success and its finalizeUnstake emits
\* UnstakeFinalized and returns.
finalizeUnstakeExit ==
    /\ stack # <<>>
    /\ LET frame == stack[Len(stack)] IN
       /\ stack' = SubSeq(stack, 1, Len(stack) - 1)
       /\ last' = [Call("finalizeUnstake", frame.caller) EXCEPT
              !.handle = frame.handle,
              !.clearArg = frame.clearArg,
              !.proof = frame.proof,
              !.accepts = TRUE,
              !.paidTo = frame.paidTo,
              !.paidWei = frame.paidWei,
              !.event = <<"UnstakeFinalized", frame.paidTo, frame.clearArg,
                          frame.paidWei>>]
    /\ UNCHANGED <<state, paid, counts, client>>

\* Who calls: any account at the top level, the recipient from inside to.call.
Callers == IF stack = <<>> THEN Accounts ELSE {stack[Len(stack)].paidTo}

\* The calls of Next whose inputs pass the checks made on them (calls that
\* fail those checks change nothing, at any depth: see Spec), with
\* finalizeUnstake in its two steps.  A finalizeUnstake call is made for any
\* handle that has a cleartext, registered or not.
NextReentrant ==
    \/ \E sender \in Callers, units \in 1 .. Uint64Max :
           /\ stake(sender, units * STAKE_SCALE)
           /\ UNCHANGED <<stack, paid, counts, client>>
    \/ \E sender \in Callers, amount \in Uint64 :
           /\ requestUnstakeExternal(sender, amount, TRUE)
           /\ PaidAfterRequest
           /\ UNCHANGED <<stack, counts, client>>
    \/ \E sender \in Callers, h \in publiclyDecryptable,
          accepts \in BOOLEAN :
           finalizeUnstakeEnter(sender, h, clear[h],
                                [h |-> h, c |-> clear[h], kms |-> TRUE],
                                accepts)
    \/ finalizeUnstakeExit

SpecReentrant == Init /\ [][NextReentrant]_vars

----------------------------------------------------------------------------
\* Counted calls.  The successful requestUnstake and finalizeUnstake calls
\* of every handle are counted; a handle is registered at most
\* MaxRegistrations times so that the counts stay finite.

MaxRegistrations == 2

CountAfterRequest ==
    /\ registrations' =
           IF Succeeded(last')
           THEN [registrations EXCEPT ![last'.ret] = @ + 1]
           ELSE registrations
    /\ \A h \in Handles : registrations'[h] <= MaxRegistrations
    /\ UNCHANGED finalizations

CountAfterFinalize ==
    /\ finalizations' =
           IF Succeeded(last')
           THEN [finalizations EXCEPT ![last'.handle] = @ + 1]
           ELSE finalizations
    /\ UNCHANGED registrations

\* The calls of Next whose inputs pass the checks made on them (the others
\* change nothing: see Spec), each a transaction of its own, with the counts
\* kept.  A finalizeUnstake call is made for any handle that has a
\* cleartext, registered or not.
NextCounted ==
    \/ \E sender \in Accounts, units \in 1 .. Uint64Max :
           /\ stake(sender, units * STAKE_SCALE)
           /\ UNCHANGED <<stack, paid, counts, client>>
    \/ \E sender \in Accounts, amount \in Uint64 :
           /\ requestUnstakeExternal(sender, amount, TRUE)
           /\ PaidAfterRequest
           /\ CountAfterRequest
           /\ UNCHANGED <<stack, client>>
    \/ \E sender \in Accounts, h \in publiclyDecryptable :
           /\ finalizeUnstake(sender, h, clear[h],
                              [h |-> h, c |-> clear[h], kms |-> TRUE])
           /\ PaidAfterFinalize
           /\ CountAfterFinalize
           /\ UNCHANGED <<stack, client>>

SpecCounted == Init /\ [][NextCounted]_vars

----------------------------------------------------------------------------
\* StakeApp: the handlers.  A handler runs from the click to the end of its
\* finally block; the transaction it sends is the contract call above, made
\* by the connected wallet.  The contract address is configured.

\* useAccount().address, the connected wallet.
address == "alice"

\* STAKE_SCALE as read from the contract, and (1n << 64n) - 1n.
stakeScale == STAKE_SCALE
MAX_UINT64 == Uint64Max

\* What can be typed into an amount field: nothing, no number, zero, an
\* amount off the scale, one unit, and one unit more than 64 bits hold.
AmountTexts ==
    {EmptyText, GarbageText} \cup
    {DecimalText(w) : w \in {0, 1, stakeScale, (MAX_UINT64 + 1) * stakeScale}}

\* parseWei(value): null for an empty string and when parseEther throws,
\* else the wei that the decimal string denotes.
parseWei(value) ==
    IF value.kind = "empty" THEN Undefined
    ELSE IF value.kind = "garbage" THEN Undefined
    ELSE Some(value.wei)

\* !v for an optional bigint: undefined and 0n are both falsy.
FalsyBigint(v) == v = Undefined \/ v[1] = 0

\* A handler that returned or threw before it sent anything.
ClientOnly(c) ==
    /\ client' = c
    /\ UNCHANGED <<state, last, stack, paid, counts>>

Ran(handler) == [client EXCEPT !.handler = handler, !.sent = "none"]

Failed(handler, message) ==
    ClientOnly([Ran(handler) EXCEPT !.status = Status("error", message)])

\* onChange of the two amount fields.
setStakeAmount(text) ==
    ClientOnly([Ran("setStakeAmount") EXCEPT !.stakeAmount = text])

setUnstakeAmount(text) ==
    ClientOnly([Ran("setUnstakeAmount") EXCEPT !.unstakeAmount = text])

\* handleStake without the alignment test of the amount.
handleStake_NoAlignmentCheck(connected, signerOk) ==
    LET weiValue == parseWei(client.stakeAmount)
        ran == Ran("handleStake")
    IN  IF ~connected THEN
            Failed("handleStake", "Connect your wallet to stake.")
        ELSE IF FalsyBigint(weiValue) THEN
            Failed("handleStake", "Enter a valid stake amount.")
        ELSE IF ~signerOk THEN
            Failed("handleStake", "Stake failed. Please try again.")
        ELSE
            /\ stake(address, weiValue[1])
            /\ UNCHANGED <<stack, paid, counts>>
            /\ client' =
                   IF Succeeded(last') THEN
                       [ran EXCEPT
                           !.sent = "stake",
                           !.status = Status("success",
                                             "Stake confirmed on-chain."),
                           !.stakeAmount = EmptyText]
                   ELSE
                       [ran EXCEPT
                           !.sent = "stake",
                           !.status = Status("error",
                                         "Stake failed. Please try again.")]

\* handleStake.  connected: a wallet is connected; signerOk: the signer
\* resolves.  A transaction that reverts makes tx.wait() (or the gas estimate
\* before it) throw.
handleStake(connected, signerOk) ==
    LET weiValue == parseWei(client.stakeAmount)
        ran == Ran("handleStake")
    IN  IF ~connected THEN
            Failed("handleStake", "Connect your wallet to stake.")
        ELSE IF FalsyBigint(weiValue) THEN
            Failed("handleStake", "Enter a valid stake amount.")
        ELSE IF weiValue[1] % stakeScale # 0 THEN
            Failed("handleStake", "Amount must align with the stake scale.")
        ELSE IF ~signerOk THEN
            Failed("handleStake", "Stake failed. Please try again.")
        ELSE
            /\ stake(address, weiValue[1])
            /\ UNCHANGED <<stack, paid, counts>>
            /\ client' =
                   IF Succeeded(last') THEN
                       [ran EXCEPT
                           !.sent = "stake",
                           !.status = Status("success",
                                             "Stake confirmed on-chain."),
                           !.stakeAmount = EmptyText]
                   ELSE
                       [ran EXCEPT
                           !.sent = "stake",
                           !.status = Status("error",
                                         "Stake failed. Please try again.")]

\* handleRequestUnstake.  signerOk: the input is encrypted and the signer
\* resolves; decryptOk: instance.publicDecrypt returns.  The encrypted
\* input comes with the proof the relayer made for it.  The receipt of a
\* transaction that succeeded holds the UnstakeRequested event, whose
\* amount is the handle; publicDecrypt returns the handle's clear value and
\* the proof for it.
handleRequestUnstake(connected, signerOk, decryptOk) ==
    LET weiValue == parseWei(client.unstakeAmount)
        ran == Ran("handleRequestUnstake")
        failed == "Unstake request failed."
    IN  IF ~connected THEN
            Failed("handleRequestUnstake",
                   "Connect wallet and wait for encryption to load.")
        ELSE IF FalsyBigint(weiValue) THEN
            Failed("handleRequestUnstake", "Enter a valid unstake amount.")
        ELSE IF weiValue[1] % stakeScale # 0 THEN
            Failed("handleRequestUnstake",
                   "Amount must align with the stake scale.")
        ELSE IF weiValue[1] \div stakeScale > MAX_UINT64 THEN
            Failed("handleRequestUnstake",
                   "Amount exceeds the encrypted range.")
        ELSE IF ~signerOk THEN
            Failed("handleRequestUnstake", failed)
        ELSE
            /\ requestUnstakeExternal(address, weiValue[1] \div stakeScale,
                                      TRUE)
            /\ PaidAfterRequest
            /\ UNCHANGED <<stack, counts>>
            /\ client' =
                   IF ~Succeeded(last') THEN
                       [ran EXCEPT
                           !.sent = "requestUnstake",
                           !.status = Status("error", failed)]
                   ELSE IF ~decryptOk THEN
                       [ran EXCEPT
                           !.sent = "requestUnstake",
                           !.pendingUnstake =
                               Some([handle |-> last'.ret,
                                     clearValue |-> Undefined,
                                     decryptionProof |-> Undefined]),
                           !.status = Status("error", failed)]
                   ELSE
                       [ran EXCEPT
                           !.sent = "requestUnstake",
                           !.pendingUnstake =
                               Some([handle |-> last'.ret,
                                     clearValue |-> Some(clear'[last'.ret]),
                                     decryptionProof |->
                                         Some([h |-> last'.ret,
                                               c |-> clear'[last'.ret],
                                               kms |-> TRUE])]),
                           !.status = Status("success",
                                       "Unstake request ready to finalize."),
                           !.unstakeAmount = EmptyText]

\* handleFinalizeUnstake.  Its first test is !pendingUnstake?.clearValue ||
\* !pendingUnstake.decryptionProof; a proof that was stored is a non-empty
\* hex string.
handleFinalizeUnstake(connected, signerOk) ==
    LET ran == Ran("handleFinalizeUnstake")
        pending == client.pendingUnstake
        failed == "Finalize failed. Please try again."
    IN  IF \/ pending = Undefined
           \/ FalsyBigint(pending[1].clearValue)
           \/ pending[1].decryptionProof = Undefined THEN
            Failed("handleFinalizeUnstake",
                   "No pending unstake proof available.")
        ELSE IF ~connected THEN
            Failed("handleFinalizeUnstake",
                   "Connect your wallet to finalize.")
        ELSE IF ~signerOk THEN
            Failed("handleFinalizeUnstake", failed)
        ELSE
            /\ finalizeUnstake(address, pending[1].handle,
                               pending[1].clearValue[1],
                               pending[1].decryptionProof[1])
            /\ PaidAfterFinalize
            /\ UNCHANGED <<stack, counts>>
            /\ client' =
                   IF Succeeded(last') THEN
                       [ran EXCEPT
                           !.sent = "finalizeUnstake",
                           !.pendingUnstake = Undefined,
                           !.status = Status("success",
                                       "Unstake finalized and ETH released.")]
                   ELSE
                       [ran EXCEPT
                           !.sent = "finalizeUnstake",
                           !.status = Status("error", failed)]

\* The user types into a field or clicks one of the three buttons.
NextClient ==
    \/ \E text \in AmountTexts : setStakeAmount(text)
    \/ \E text \in AmountTexts : setUnstakeAmount(text)
    \/ \E connected \in BOOLEAN, signerOk \in BOOLEAN :
           handleStake(connected, signerOk)
    \/ \E connected \in BOOLEAN, signerOk \in BOOLEAN,
          decryptOk \in BOOLEAN :
           handleRequestUnstake(connected, signerOk, decryptOk)
    \/ \E connected \in BOOLEAN, signerOk \in BOOLEAN :
           handleFinalizeUnstake(connected, signerOk)

SpecClient == Init /\ [][NextClient]_vars

----------------------------------------------------------------------------
\* Arithmetic at full width.  The actions compute with the scaled-down
\* STAKE_SCALE and Uint64Max; the product of finalizeUnstake,
\* uint256(burntAmountCleartext) * STAKE_SCALE, is computed here with the
\* contract's own constants, as numbers in radix LimbBase, lowest limb first.

LimbBase == 10000

\* 1e12
STAKE_SCALE_Full == <<0, 0, 0, 1>>

\* type(uint64).max = 2^64 - 1 = 18446744073709551615
Uint64Max_Full == <<1615, 955, 737, 6744, 1844>>

\* type(uint256).max = 2^256 - 1
Uint256Max_Full ==
    <<9935, 2963, 9131, 4007, 5758, 394, 564, 6564, 9846, 3269, 785, 6879,
      5008, 7098, 4235, 6195, 3731, 892, 5792, 11>>

\* a without its leading zero limbs.
RECURSIVE Trim(_)
Trim(a) ==
    IF a = <<>> THEN <<>>
    ELSE IF a[Len(a)] = 0 THEN Trim(SubSeq(a, 1, Len(a) - 1))
    ELSE a

\* a * d + carry for a single limb d.
RECURSIVE MulLimb(_, _, _)
MulLimb(a, d, carry) ==
    IF a = <<>> THEN (IF carry = 0 THEN <<>> ELSE <<carry>>)
    ELSE LET t == Head(a) * d + carry
         IN  <<t % LimbBase>> \o MulLimb(Tail(a), d, t \div LimbBase)

\* a + b + carry.
RECURSIVE AddBig(_, _, _)
AddBig(a, b, carry) ==
    IF a = <<>> /\ b = <<>> THEN (IF carry = 0 THEN <<>> ELSE <<carry>>)
    ELSE LET x == IF a = <<>> THEN 0 ELSE Head(a)
             y == IF b = <<>> THEN 0 ELSE Head(b)
             t == x + y + carry
         IN  <<t % LimbBase>> \o
             AddBig(IF a = <<>> THEN <<>> ELSE Tail(a),
                    IF b = <<>> THEN <<>> ELSE Tail(b),
                    t \div LimbBase)

\* a * b, by rows.
RECURSIVE MulBig(_, _)
MulBig(a, b) ==
    IF b = <<>> THEN <<>>
    ELSE Trim(AddBig(MulLimb(a, Head(b), 0),
                     <<0>> \o MulBig(a, Tail(b)), 0))

\* a <= b for numbers without leading zero limbs.
RECURSIVE LeqBig(_, _)
LeqBig(a, b) ==
    IF Len(a) # Len(b) THEN Len(a) < Len(b)
    ELSE IF a = <<>> THEN TRUE
    ELSE IF a[Len(a)] # b[Len(b)] THEN a[Len(a)] < b[Len(b)]
    ELSE LeqBig(SubSeq(a, 1, Len(a) - 1), SubSeq(b, 1, Len(b) - 1))

----------------------------------------------------------------------------
\* Claims

RequestOps == {"requestUnstakeExternal", "requestUnstakeHandle"}

\* C1: a stake call whose value is zero, is not a multiple of STAKE_SCALE, or
\* has value / STAKE_SCALE above the 64-bit maximum is rejected with
\* InvalidStakeAmount; every accepted stake call has an aligned value whose
\* unit count fits in 64 bits.
C1_StakeValidation ==
    last.op = "stake" =>
        /\ ( \/ last.value = 0
             \/ last.value % STAKE_SCALE # 0
             \/ last.value \div STAKE_SCALE > Uint64Max )
           => last.error = "InvalidStakeAmount"
        /\ Succeeded(last) =>
              /\ last.value > 0
              /\ last.value % STAKE_SCALE = 0
              /\ last.value \div STAKE_SCALE <= Uint64Max

\* A stake of an aligned value is rejected because its unit count is too big.
C1_Witness ==
    /\ last.op = "stake"
    /\ last.error = "InvalidStakeAmount"
    /\ last.value % STAKE_SCALE = 0
    /\ last.value \div STAKE_SCALE > Uint64Max

\* C2: a rejected stake call changes nothing: no balance, not the registry,
\* not the contract's ETH holding, and it emits no event.
C2_RejectedStakeFrame ==
    [][ (last'.op = "stake" /\ ~Succeeded(last'))
          => (state' = state /\ last'.event = NoEvent) ]_vars

\* A misaligned stake is rejected while the vault already holds ETH and a
\* withdrawal is pending.
C2_Witness ==
    /\ last.op = "stake"
    /\ last.error = "InvalidStakeAmount"
    /\ last.value % STAKE_SCALE # 0
    /\ ethBalance > 0
    /\ \E h \in Handles : unstakeRequests[h] # ZeroAddress

\* C3: a successful stake of w wei raises the sender's decrypted balance from
\* b to b + w / STAKE_SCALE.
C3_StakeMints ==
    [][ (last'.op = "stake" /\ Succeeded(last'))
          => balances'[last'.caller] =
                 balances[last'.caller] + last'.value \div STAKE_SCALE ]_vars

\* A stake succeeded on top of a balance that was already positive.
C3_Witness ==
    /\ last.op = "stake"
    /\ Succeeded(last)
    /\ balances[last.caller] > last.value \div STAKE_SCALE

\* C4 as stated: after a successful requestUnstake of u units by an account
\* of decrypted balance b and the successful finalizeUnstake of the returned
\* handle, the account's decrypted balance is b - u.
C4_Original ==
    [][ ( /\ last.op \in RequestOps /\ Succeeded(last)
          /\ last'.op = "finalizeUnstake" /\ Succeeded(last')
          /\ last'.handle = last.ret )
          => balances'[last.caller] = last.balanceBefore - last.amount ]_vars

\* C4 (amended): after a successful requestUnstake of u units by an account
\* of decrypted balance b and the successful finalizeUnstake of the returned
\* handle, the account's decrypted balance is b - u when u <= b; when u > b
\* the request still succeeds, burns nothing, and the balance stays b.  The
\* units taken by the request are the plaintext of the returned handle, the
\* only clear value finalizeUnstake pays for it, and finalizeUnstake changes
\* no balance.
C4_UnstakeBurns ==
    [][ /\ ( /\ last.op \in RequestOps /\ Succeeded(last)
             /\ last'.op = "finalizeUnstake" /\ Succeeded(last')
             /\ last'.handle = last.ret )
            => LET b == last.balanceBefore
                   u == last.amount
               IN  /\ balances'[last.caller] = IF u <= b THEN b - u ELSE b
                   /\ last'.clearArg = IF u <= b THEN u ELSE 0
        /\ (last'.op \in RequestOps /\ Succeeded(last'))
            => LET b == balances[last'.caller]
                   u == last'.amount
                   taken == IF u <= b THEN u ELSE 0
               IN  /\ last'.balanceBefore = b
                   /\ balances'[last'.caller] = b - taken
                   /\ clear'[last'.ret] = taken
        /\ (last'.op = "finalizeUnstake" /\ Succeeded(last'))
            => /\ balances' = balances
               /\ last'.clearArg = clear[last'.handle] ]_vars

\* A withdrawal of part of a balance has been requested and finalized.
C4_Witness ==
    /\ last.op = "finalizeUnstake"
    /\ Succeeded(last)
    /\ last.clearArg > 0
    /\ balances[last.paidTo] > 0
    /\ last.balanceBefore = balances[last.caller]

\* C5: a successful finalizeUnstake removes the handle's entry, and a
\* finalizeUnstake of the same handle right after it fails with
\* InvalidUnstakeRequest and moves no ETH.
C5_ReplayProtection ==
    [][ /\ (last'.op = "finalizeUnstake" /\ Succeeded(last'))
            => unstakeRequests'[last'.handle] = ZeroAddress
        /\ ( /\ last.op = "finalizeUnstake" /\ Succeeded(last)
             /\ last'.op = "finalizeUnstake"
             /\ last'.handle = last.handle )
            => /\ last'.error = "InvalidUnstakeRequest"
               /\ ethBalance' = ethBalance
               /\ last'.paidWei = 0 ]_vars

\* The genuine proof of a handle that was paid out is presented again and
\* the call is refused.
C5_Witness ==
    /\ last.op = "finalizeUnstake"
    /\ last.error = "InvalidUnstakeRequest"
    /\ clear[last.handle] > 0
    /\ last.proof \in GenuineProofs
    /\ checkSignatures(last.handle, last.clearArg, last.proof)

\* C6: the contract's ETH decreases only in a successful finalizeUnstake whose
\* proof is the oracle's proof for exactly the finalized handle and the
\* claimed clear value; a finalizeUnstake of a registered handle whose proof
\* does not verify reverts, leaving the entry registered and the ETH in place.
C6_ProofGatedRelease ==
    [][ /\ ethBalance' < ethBalance
            => /\ last'.op = "finalizeUnstake"
               /\ Succeeded(last')
               /\ last'.proof \in GenuineProofs
               /\ last'.proof.h = last'.handle
               /\ last'.proof.c = last'.clearArg
        /\ ( /\ last'.op = "finalizeUnstake"
             /\ unstakeRequests[last'.handle] # ZeroAddress
             /\ ~checkSignatures(last'.handle, last'.clearArg, last'.proof) )
            => /\ ~Succeeded(last')
               /\ state' = state
               /\ unstakeRequests'[last'.handle] # ZeroAddress
               /\ last'.paidWei = 0 ]_vars

\* The oracle's proof of another handle is presented for a pending handle
\* and is refused.
C6_Witness ==
    /\ last.op = "finalizeUnstake"
    /\ ~Succeeded(last)
    /\ unstakeRequests[last.handle] # ZeroAddress
    /\ last.proof \in GenuineProofs
    /\ last.proof.h # last.handle
    /\ last.proof.c = last.clearArg

\* The finalizeUnstake call that failed last, made again.
RetrySucceeds ==
    /\ finalizeUnstake(last.caller, last.handle, last.clearArg, last.proof)
    /\ Succeeded(last')

\* C7: when the recipient refuses the ETH, finalizeUnstake fails with
\* TransferFailed and the state is the one before the call: the entry is
\* still registered with the same recipient, no ETH has left, and the same
\* finalizeUnstake can still succeed afterwards.
C7_TransferFailureAtomic ==
    /\ [][ (last'.op = "finalizeUnstake" /\ last'.error = "TransferFailed")
              => /\ state' = state
                 /\ unstakeRequests'[last'.handle] # ZeroAddress
                 /\ last'.paidWei = 0
                 /\ last'.event = NoEvent ]_vars
    /\ [][ ( /\ last'.op = "finalizeUnstake"
             /\ unstakeRequests[last'.handle] # ZeroAddress
             /\ checkSignatures(last'.handle, last'.clearArg, last'.proof)
             /\ ~last'.accepts )
              => last'.error = "TransferFailed" ]_vars
    /\ []( (last.op = "finalizeUnstake" /\ last.error = "TransferFailed")
              => ENABLED RetrySucceeds )

\* A payout of a positive amount was refused by its recipient.
C7_Witness ==
    /\ last.op = "finalizeUnstake"
    /\ last.error = "TransferFailed"
    /\ ~last.accepts
    /\ last.clearArg > 0

\* C8: a successful finalizeUnstake(handle, clearValue, proof) lowers the
\* contract's ETH by exactly clearValue * STAKE_SCALE, pays it to the
\* recipient registered for the handle, and emits
\* UnstakeFinalized(recipient, clearValue, clearValue * STAKE_SCALE).
C8_ExactPayout ==
    [][ (last'.op = "finalizeUnstake" /\ Succeeded(last'))
          => LET to == unstakeRequests[last'.handle]
                 weiAmount == last'.clearArg * STAKE_SCALE
             IN  /\ to # ZeroAddress
                 /\ ethBalance' = ethBalance - weiAmount
                 /\ last'.paidTo = to
                 /\ last'.paidWei = weiAmount
                 /\ last'.event = <<"UnstakeFinalized", to,
                                    last'.clearArg, weiAmount>> ]_vars

\* A payout of more than one unit was made by a caller other than the
\* recipient.
C8_Witness ==
    /\ last.op = "finalizeUnstake"
    /\ Succeeded(last)
    /\ last.clearArg > 1
    /\ last.paidTo # last.caller

\* C9: finalizeUnstake of a handle that is not registered fails with
\* InvalidUnstakeRequest whatever the clear value and the proof, changes no
\* state and moves no ETH.
C9_UnknownHandle ==
    [][ (last'.op = "finalizeUnstake"
           /\ unstakeRequests[last'.handle] = ZeroAddress)
          => /\ last'.error = "InvalidUnstakeRequest"
             /\ state' = state
             /\ last'.paidWei = 0
             /\ last'.event = NoEvent ]_vars

\* A handle the vault never registered is refused while the vault holds ETH.
C9_Witness ==
    /\ last.op = "finalizeUnstake"
    /\ last.error = "InvalidUnstakeRequest"
    /\ clear[last.handle] = NoValue
    /\ ethBalance > 0

\* C10: a requestUnstake whose burn yields a handle that is already
\* registered fails with InvalidUnstakeRequest and changes nothing; a live
\* entry is never overwritten, and an entry is created only by a successful
\* requestUnstake, with its sender as the recipient.
C10_DuplicateHandle ==
    [][ /\ ( /\ last'.op \in RequestOps
             /\ last'.handle # NoHandle
             /\ unstakeRequests[last'.handle] # ZeroAddress )
            => /\ last'.error = "InvalidUnstakeRequest"
               /\ state' = state
        /\ \A h \in Handles :
             /\ (unstakeRequests[h] # ZeroAddress
                   /\ unstakeRequests'[h] # ZeroAddress)
                => unstakeRequests'[h] = unstakeRequests[h]
             /\ (unstakeRequests[h] = ZeroAddress
                   /\ unstakeRequests'[h] # ZeroAddress)
                => /\ last'.op \in RequestOps
                   /\ Succeeded(last')
                   /\ last'.ret = h
                   /\ unstakeRequests'[h] = last'.caller ]_vars

\* A request of another account resolved to a handle that is still pending
\* and was refused.
C10_Witness ==
    /\ last.op \in RequestOps
    /\ last.error = "InvalidUnstakeRequest"
    /\ unstakeRequests[last.handle] \in Accounts \ {last.caller}

\* The wei a handle's cleartext is worth; nothing before it has one.
WorthWei(h) == IF clear[h] = NoValue THEN 0 ELSE clear[h] * STAKE_SCALE

\* A finalizeUnstake call made from inside to.call right after the transfer
\* of the same handle began.
ReentrantFinalize ==
    /\ last.op = "to.call"
    /\ last'.op \in {"finalizeUnstake", "to.call"}
    /\ Len(stack') >= Len(stack)
    /\ last'.handle = last.handle
    /\ last'.caller = last.paidTo

\* C11: finalizeUnstake has removed the handle's entry when the transfer to
\* the recipient begins; a finalizeUnstake call on the same handle that the
\* recipient makes during the transfer reverts with InvalidUnstakeRequest of
\* that handle and moves nothing; and however the calls are nested, the wei
\* sent for one registration of a handle never exceeds its cleartext times
\* STAKE_SCALE.
C11_Reentrancy ==
    /\ [][last'.op = "to.call" =>
              unstakeRequests'[last'.handle] = ZeroAddress]_vars
    /\ [][ReentrantFinalize =>
              /\ last'.error = "InvalidUnstakeRequest"
              /\ last'.errorArgs = <<last.handle>>
              /\ UNCHANGED <<state, stack, paid>>]_vars
    /\ [](\A h \in Handles : paid[h] <= WorthWei(h))

\* The recipient of a payout in progress has called finalizeUnstake on the
\* handle being paid and was turned away.
C11_Witness ==
    /\ stack # <<>>
    /\ last.op = "finalizeUnstake"
    /\ last.error = "InvalidUnstakeRequest"
    /\ last.handle = stack[Len(stack)].handle
    /\ last.caller = stack[Len(stack)].paidTo
    /\ stack[Len(stack)].paidWei > 0
    /\ paid[last.handle] = WorthWei(last.handle)

\* The oracle's proof for a produced handle.
ProofOf(h) == [h |-> h, c |-> clear[h], kms |-> TRUE]

\* C12: finalizeUnstake is open to every account: for a pending handle and
\* its genuine proof the call can succeed whoever sends it.  Whoever the
\* sender is, the ETH of a successful finalizeUnstake goes to the recipient
\* registered for the handle, which is an account that requested it.
C12_AnyCallerPaysRecipient ==
    /\ [][ (last'.op = "finalizeUnstake" /\ Succeeded(last'))
              => /\ last'.paidTo = unstakeRequests[last'.handle]
                 /\ last'.paidTo \in Accounts ]_vars
    /\ []( \A h \in Handles, s \in Accounts :
              unstakeRequests[h] # ZeroAddress
                => ENABLED ( /\ finalizeUnstake(s, h, clear[h], ProofOf(h))
                             /\ Succeeded(last')
                             /\ last'.paidTo = unstakeRequests[h] ) )

\* An account that never staked finalized another account's withdrawal.
C12_Witness ==
    /\ last.op = "finalizeUnstake"
    /\ Succeeded(last)
    /\ last.paidWei > 0
    /\ last.caller \notin initialized
    /\ last.paidTo # last.caller

\* C13: a handle's entry appears only by a successful requestUnstake that
\* returns the handle, and a pending entry changes only by a successful
\* finalizeUnstake of that handle, which removes it; no other call, no failed
\* finalizeUnstake and no expiry removes or alters it.
C13_HandleLifecycle ==
    [][ \A h \in Handles :
          /\ (unstakeRequests[h] = ZeroAddress
                /\ unstakeRequests'[h] # ZeroAddress)
             => /\ last'.op \in RequestOps
                /\ Succeeded(last')
                /\ last'.ret = h
          /\ (unstakeRequests[h] # ZeroAddress
                /\ unstakeRequests'[h] # unstakeRequests[h])
             => /\ last'.op = "finalizeUnstake"
                /\ Succeeded(last')
                /\ last'.handle = h
                /\ unstakeRequests'[h] = ZeroAddress ]_vars

\* One handle was finalized while another handle stays pending.
C13_Witness ==
    /\ last.op = "finalizeUnstake"
    /\ Succeeded(last)
    /\ \E g \in Handles \ {last.handle} : unstakeRequests[g] # ZeroAddress

\* C14: requestUnstake in its handle form by a sender the ACL does not allow
\* on the supplied handle fails with the authorization error carrying the
\* handle and the sender, and changes nothing: no burn, no entry, no event.
C14_UnauthorizedHandle ==
    [][ (last'.op = "requestUnstakeHandle" /\ ~last'.authOk)
          => /\ last'.error = "ERC7984UnauthorizedUseOfEncryptedAmount"
             /\ last'.errorArgs = <<last'.amount, last'.caller>>
             /\ state' = state
             /\ last'.ret = NoHandle
             /\ last'.event = NoEvent ]_vars

\* A sender with a balance that covers the amount was refused for lack of
\* permission on the handle.
C14_Witness ==
    /\ last.op = "requestUnstakeHandle"
    /\ last.error = "ERC7984UnauthorizedUseOfEncryptedAmount"
    /\ last.amount > 0
    /\ balances[last.caller] >= last.amount

\* C15: requestUnstake in its external-input form fails when the input proof
\* does not verify, and the failed call leaves the balances, the registry and
\* the events as they were.
C15_BadInputProof ==
    [][ (last'.op = "requestUnstakeExternal" /\ ~last'.authOk)
          => /\ ~Succeeded(last')
             /\ state' = state
             /\ last'.ret = NoHandle
             /\ last'.event = NoEvent ]_vars

\* A sender with a balance that covers the amount presented an input proof
\* that does not verify.
C15_Witness ==
    /\ last.op = "requestUnstakeExternal"
    /\ ~Succeeded(last)
    /\ ~last.authOk
    /\ last.amount > 0
    /\ balances[last.caller] >= last.amount

\* Units of the withdrawals that are pending in the registry.
PendingUnits ==
    SumOver([h \in Handles |->
                IF unstakeRequests[h] # ZeroAddress THEN clear[h] ELSE 0],
            Handles)

\* C17: in every reachable state the contract's ETH is at least STAKE_SCALE
\* times the sum of all decrypted balances and of the plaintexts of all
\* pending handles, so the payout of any pending handle is covered.
C17_Solvency ==
    /\ ethBalance >= STAKE_SCALE * (TotalSupply(balances) + PendingUnits)
    /\ \A h \in Handles :
          unstakeRequests[h] # ZeroAddress
            => clear[h] * STAKE_SCALE <= ethBalance

\* Both a balance and a pending withdrawal are backed by the vault's ETH.
C17_Witness ==
    /\ TotalSupply(balances) > 0
    /\ PendingUnits > 0
    /\ last.op = "finalizeUnstake"

\* C18: whatever amount a successful requestUnstake asks for, also one above
\* the sender's balance, the sender's balance stays >= 0 and the plaintext of
\* the registered handle is exactly the number of units taken from it.
C18_BurnNoUnderflow ==
    [][ (last'.op \in RequestOps /\ Succeeded(last'))
          => /\ balances'[last'.caller] >= 0
             /\ unstakeRequests'[last'.ret] = last'.caller
             /\ clear'[last'.ret] =
                    balances[last'.caller] - balances'[last'.caller] ]_vars

\* A request for more than the sender's positive balance went through.
C18_Witness ==
    /\ last.op \in RequestOps
    /\ Succeeded(last)
    /\ last.amount > last.balanceBefore
    /\ last.balanceBefore > 0

\* C19: a successful requestUnstake of either form by c burns from c's balance
\* only, marks the burnt-amount handle publicly decryptable, registers it
\* with recipient c, emits UnstakeRequested(c, handle) and returns the handle.
C19_RequestEffects ==
    [][ (last'.op \in RequestOps /\ Succeeded(last'))
          => LET c == last'.caller
                 h == last'.ret
             IN  /\ h \in Handles
                 /\ balances'[c] = balances[c] - clear'[h]
                 /\ \A a \in Accounts \ {c} : balances'[a] = balances[a]
                 /\ h \in publiclyDecryptable'
                 /\ [h |-> h, c |-> clear'[h], kms |-> TRUE] \in GenuineProofs'
                 /\ unstakeRequests'[h] = c
                 /\ last'.event = <<"UnstakeRequested", c, h>> ]_vars

\* A handle-form request burnt units while the other account holds a balance.
C19_Witness ==
    /\ last.op = "requestUnstakeHandle"
    /\ Succeeded(last)
    /\ clear[last.ret] > 0
    /\ \E a \in Accounts \ {last.caller} : balances[a] > 0

\* C20: a requestUnstake refused by the duplicate-handle guard takes its burn
\* back: the sender's balance and the entry of the live handle are as before
\* the call.
C20_DuplicateRollsBackBurn ==
    [][ (last'.op \in RequestOps /\ last'.error = "InvalidUnstakeRequest")
          => /\ balances' = balances
             /\ unstakeRequests' = unstakeRequests
             /\ unstakeRequests[last'.handle] # ZeroAddress
             /\ clear' = clear
             /\ last'.event = NoEvent ]_vars

\* The refused request would have burnt units of the sender.
C20_Witness ==
    /\ last.op \in RequestOps
    /\ last.error = "InvalidUnstakeRequest"
    /\ last.amount > 0
    /\ last.amount <= balances[last.caller]
    /\ clear[last.handle] = last.amount

\* C21: a stake of v wei by c that succeeds emits Staked(c, v, units) with
\* units = v / STAKE_SCALE and units * STAKE_SCALE = v; the encrypted amount
\* it returns decrypts to the units added to c's balance; and the event is
\* made of the caller and msg.value alone, so it carries the minted units
\* whatever c's balance was and is.
C21_StakedEvent ==
    [][(last'.op = "stake" /\ Succeeded(last')) =>
          LET c == last'.caller
              v == last'.value
              units == v \div STAKE_SCALE
          IN  /\ last'.event = <<"Staked", c, v, units>>
              /\ units * STAKE_SCALE = v
              /\ last'.retClear = units
              /\ balances'[c] - balances[c] = last'.retClear]_vars

\* A stake by an account that already holds units: the units of the event
\* differ from the balance after the stake.
C21_Witness ==
    /\ last.op = "stake"
    /\ Succeeded(last)
    /\ last.balanceBefore > 0
    /\ last.event[4] # balances[last.caller]

\* C22: a handle is never finalized more often than it was registered; a
\* finalizeUnstake that succeeds uses up one registration that was still
\* open; and a requestUnstake registers a handle only when every earlier
\* registration of it has been finalized.
C22_FinalizeConsumesRegistration ==
    /\ [](\A h \in Handles :
            /\ finalizations[h] <= registrations[h]
            /\ registrations[h] <= finalizations[h] + 1
            /\ (unstakeRequests[h] # ZeroAddress
                   <=> registrations[h] = finalizations[h] + 1))
    /\ [][(last'.op = "finalizeUnstake" /\ Succeeded(last')) =>
             LET h == last'.handle
             IN  /\ registrations[h] = finalizations[h] + 1
                 /\ finalizations'[h] = finalizations[h] + 1
                 /\ registrations'[h] = finalizations'[h]]_vars
    /\ [][(last'.op \in RequestOps /\ Succeeded(last')) =>
             LET h == last'.ret
             IN  /\ registrations[h] = finalizations[h]
                 /\ registrations'[h] = registrations[h] + 1]_vars

\* A handle has been registered, finalized, registered again and finalized
\* again.
C22_Witness ==
    /\ last.op = "finalizeUnstake"
    /\ Succeeded(last)
    /\ registrations[last.handle] = 2
    /\ finalizations[last.handle] = 2

\* What a call leaves alone: the balances of the accounts other than a, and
\* the registry entries and engine records of the handles other than h.
OthersKeepBalance(a) ==
    \A b \in Accounts \ {a} :
        /\ balances'[b] = balances[b]
        /\ (b \in initialized') = (b \in initialized)

OthersKeepEntry(h) ==
    \A g \in Handles \ {h} :
        /\ unstakeRequests'[g] = unstakeRequests[g]
        /\ clear'[g] = clear[g]
        /\ (g \in publiclyDecryptable') = (g \in publiclyDecryptable)

\* C23: stake changes the caller's balance and the contract's ETH and leaves
\* the registry and every other balance alone; requestUnstake changes the
\* caller's balance and the entry of the handle it returns and leaves the
\* ETH, every other balance and every other entry alone; finalizeUnstake
\* changes the entry of its handle and the ETH and leaves every balance and
\* every other entry alone.  A call that fails changes nothing.
C23_FrameConditions ==
    [][/\ last'.op = "stake" =>
             /\ OthersKeepBalance(last'.caller)
             /\ OthersKeepEntry(NoHandle)
       /\ last'.op \in RequestOps =>
             /\ ethBalance' = ethBalance
             /\ OthersKeepBalance(last'.caller)
             /\ OthersKeepEntry(last'.ret)
       /\ last'.op = "finalizeUnstake" =>
             /\ OthersKeepBalance(ZeroAddress)
             /\ OthersKeepEntry(last'.handle)
             /\ clear' = clear
             /\ publiclyDecryptable' = publiclyDecryptable
       /\ ~Succeeded(last') => UNCHANGED state]_vars

\* A stake that succeeded while the staker had a withdrawal pending and the
\* other account held units.
C23_Witness ==
    /\ last.op = "stake"
    /\ Succeeded(last)
    /\ \E h \in Handles : unstakeRequests[h] = last.caller
    /\ \E b \in Accounts \ {last.caller} : balances[b] > 0

\* C24: every stake amount w that is accepted satisfies
\* (w / STAKE_SCALE) * STAKE_SCALE = w and mints w / STAKE_SCALE units; the
\* payout of a finalizeUnstake is its clear value times STAKE_SCALE, which
\* for the largest 64-bit clear value and the real STAKE_SCALE is at most
\* 2^256 - 1; and the contract's ETH is at all times exactly STAKE_SCALE
\* times the units that are held or pending, so units that are staked and
\* then unstaked in full return the wei that was staked for them.
C24_ScaleRoundTrip ==
    /\ [](LeqBig(MulBig(Uint64Max_Full, STAKE_SCALE_Full), Uint256Max_Full))
    /\ [][(last'.op = "stake" /\ Succeeded(last')) =>
             LET w == last'.value
             IN  /\ (w \div STAKE_SCALE) * STAKE_SCALE = w
                 /\ last'.retClear * STAKE_SCALE = w
                 /\ ethBalance' = ethBalance + w]_vars
    /\ [][(last'.op = "finalizeUnstake" /\ Succeeded(last')) =>
             /\ last'.clearArg = clear[last'.handle]
             /\ last'.paidWei = last'.clearArg * STAKE_SCALE
             /\ last'.paidWei \div STAKE_SCALE = last'.clearArg
             /\ ethBalance' = ethBalance - last'.paidWei]_vars
    /\ [](ethBalance = STAKE_SCALE * (TotalSupply(balances) + PendingUnits))

\* The largest stake has been unstaked in full and paid back whole: no unit
\* and no wei is left in the contract.
C24_Witness ==
    /\ last.op = "finalizeUnstake"
    /\ Succeeded(last)
    /\ last.paidWei = Uint64Max * STAKE_SCALE
    /\ ethBalance = 0
    /\ TotalSupply(balances) = 0

\* The public decryption result of the pending unstake has been fetched:
\* clear value and proof are stored next to the handle.
Fetched(pending) ==
    /\ pending # Undefined
    /\ pending[1].clearValue # Undefined
    /\ pending[1].decryptionProof # Undefined

\* C25 as stated: whenever the finalize handler runs with a fetched pending
\* unstake, whatever its clear value, it sends finalizeUnstake(handle,
\* clearValue, proof) from the wallet, clears the pending unstake when the
\* transaction is confirmed and keeps it when it fails; if the wallet or the
\* signer is not available it sends nothing and keeps the pending unstake.
C25_ClientFinalize ==
    [][(client'.handler = "handleFinalizeUnstake"
          /\ Fetched(client.pendingUnstake)) =>
          LET pending == client.pendingUnstake[1] IN
          \/ /\ client'.sent = "finalizeUnstake"
             /\ last'.op = "finalizeUnstake"
             /\ last'.caller = address
             /\ last'.handle = pending.handle
             /\ last'.clearArg = pending.clearValue[1]
             /\ last'.proof = pending.decryptionProof[1]
             /\ Succeeded(last') =>
                    /\ client'.pendingUnstake = Undefined
                    /\ client'.status.tone = "success"
             /\ ~Succeeded(last') =>
                    /\ client'.pendingUnstake = client.pendingUnstake
                    /\ client'.status.tone = "error"
          \/ /\ client'.sent = "none"
             /\ client'.status.message \in
                    {"Connect your wallet to finalize.",
                     "Finalize failed. Please try again."}
             /\ client'.pendingUnstake = client.pendingUnstake
             /\ UNCHANGED <<state, last>>]_vars

\* C25 for clear values other than zero: the statement above holds of every
\* run of the finalize handler whose pending unstake has a non-zero clear
\* value.
C25_FinalizeNonZeroClearValue ==
    [][(client'.handler = "handleFinalizeUnstake"
          /\ Fetched(client.pendingUnstake)
          /\ client.pendingUnstake[1].clearValue[1] # 0) =>
          LET pending == client.pendingUnstake[1] IN
          \/ /\ client'.sent = "finalizeUnstake"
             /\ last'.op = "finalizeUnstake"
             /\ last'.caller = address
             /\ last'.handle = pending.handle
             /\ last'.clearArg = pending.clearValue[1]
             /\ last'.proof = pending.decryptionProof[1]
             /\ Succeeded(last') =>
                    /\ client'.pendingUnstake = Undefined
                    /\ client'.status.tone = "success"
             /\ ~Succeeded(last') =>
                    /\ client'.pendingUnstake = client.pendingUnstake
                    /\ client'.status.tone = "error"
          \/ /\ client'.sent = "none"
             /\ client'.status.message \in
                    {"Connect your wallet to finalize.",
                     "Finalize failed. Please try again."}
             /\ client'.pendingUnstake = client.pendingUnstake
             /\ UNCHANGED <<state, last>>]_vars

\* The finalize handler ran on a fetched pending unstake whose handle is
\* still registered to the wallet on the contract, and answered that no
\* proof is available.
C25_Witness ==
    /\ client.handler = "handleFinalizeUnstake"
    /\ client.status.message = "No pending unstake proof available."
    /\ Fetched(client.pendingUnstake)
    /\ unstakeRequests[client.pendingUnstake[1].handle] = address

\* The entered amount is empty, not a number, zero or off the scale.
BadAmount(text) ==
    \/ text.kind \in {"empty", "garbage"}
    \/ text.wei = 0
    \/ text.wei % STAKE_SCALE # 0

\* The entered amount is more units than 64 bits hold.
OverRange(text) ==
    text.kind = "decimal" /\ text.wei \div STAKE_SCALE > Uint64Max

\* The handler sent nothing, set an error status and changed nothing else.
RejectedBy(handler) ==
    /\ client'.sent = "none"
    /\ client'.status.tone = "error"
    /\ client' = [client EXCEPT !.status = client'.status,
                                !.handler = handler,
                                !.sent = "none"]
    /\ UNCHANGED <<state, last>>

\* C26: handleStake with an amount that is empty, unparseable, zero or not
\* a multiple of the stake scale, and handleRequestUnstake with such an
\* amount or one above 2^64 - 1 units, send no transaction, set an error
\* status and leave the rest of the page's state and the contract as they
\* were.
C26_ClientValidation ==
    [][/\ (client'.handler = "handleStake"
             /\ BadAmount(client.stakeAmount))
          => RejectedBy("handleStake")
       /\ (client'.handler = "handleRequestUnstake"
             /\ (BadAmount(client.unstakeAmount)
                   \/ OverRange(client.unstakeAmount)))
          => RejectedBy("handleRequestUnstake")]_vars

\* An unstake of one unit too many was turned away while an earlier unstake
\* was pending on the page.
C26_Witness ==
    /\ client.handler = "handleRequestUnstake"
    /\ client.status.message = "Amount exceeds the encrypted range."
    /\ OverRange(client.unstakeAmount)
    /\ client.pendingUnstake # Undefined

====
